---- MODULE Spec2Model ----
(***************************************************************************)
(* korad.c: command-line control of a KORAD KD3005P bench power supply     *)
(* over a serial line.  The model follows main() statement by statement:   *)
(* option parsing, open/fdopen, the *IDN? round trip and the identity      *)
(* check, the six optional configuration commands, the five status         *)
(* queries.  Strings that the code inspects byte by byte (the response     *)
(* buffer `line`) are sequences of byte values; strings that the code only *)
(* formats and writes (commands, option arguments) are TLA+ strings.       *)
(***************************************************************************)
EXTENDS FiniteSets, Integers, Sequences, TLC

(***************************************************************************)
(* Bounds of the model.                                                    *)
(***************************************************************************)
\* most EINTR interruptions of nanosleep in one run
MaxIntr == 2
\* most failed writes (vfprintf/putc errors) in one run
MaxWriteFail == 1

(***************************************************************************)
(* Program constants.                                                      *)
(***************************************************************************)
\* wait_ns of a configuration command: send(50e6, ...)
CONFIG_WAIT_NS == 50000000
\* wait_ns of a query: _comm(fmt, ...) is send(0, fmt, ...)
QUERY_WAIT_NS == 0
\* exit(1): usage errors, open() failure, unknown device
EXIT_USAGE == 1
\* exit(2): fdopen, nanosleep and read failures
EXIT_COMM == 2
\* falling off the end of main(), exit(0) after -h
EXIT_OK == 0

\* byte values the code names as character literals: '\n', '\0', " "
LF == 10
NUL == 0
SP == 32

\* A char * is NULL or points to a string: <<>> or <<the string>>.
NULL == <<>>
Ptr(v) == <<v>>
Deref(p) == p[1]

(***************************************************************************)
(* String literals of the identity check, as bytes.                        *)
(***************************************************************************)
Lit_KORAD == <<75, 79, 82, 65, 68>>
Lit_KD3005P == <<75, 68, 51, 48, 48, 53, 80>>
Lit_V6_6 == <<86, 54, 46, 54>>
Lit_SN == <<83, 78, 58>>

(***************************************************************************)
(* C library functions, computed as the library computes them.  A buffer   *)
(* is the sequence of its bytes; a C string in it ends before the first    *)
(* NUL byte or at the end of the sequence.                                 *)
(***************************************************************************)
\* index of the first NUL of buf at or after p, else Len(buf) + 1
RECURSIVE FirstNulFrom(_, _)
FirstNulFrom(buf, p) ==
    IF p > Len(buf) THEN Len(buf) + 1
    ELSE IF buf[p] = NUL THEN p
    ELSE FirstNulFrom(buf, p + 1)

\* the C string that starts at buf[1]
CStr(buf) == SubSeq(buf, 1, FirstNulFrom(buf, 1) - 1)

\* strspn(buf + p, " "): the first index at or after p that holds no space
RECURSIVE SkipDelims(_, _)
SkipDelims(buf, p) ==
    IF p > Len(buf) THEN Len(buf) + 1
    ELSE IF buf[p] = SP THEN SkipDelims(buf, p + 1)
    ELSE p

\* strpbrk(buf + p, " "): the first index at or after p that holds a space
\* or ends the string
RECURSIVE FirstDelimFrom(_, _)
FirstDelimFrom(buf, p) ==
    IF p > Len(buf) THEN Len(buf) + 1
    ELSE IF buf[p] = SP \/ buf[p] = NUL THEN p
    ELSE FirstDelimFrom(buf, p + 1)

\* strtok with delimiter " " resumed at index p of buf: the token (or NULL),
\* the buffer with the token's delimiter overwritten by NUL, the index to
\* resume at
Strtok(buf, p) ==
    LET s == SkipDelims(buf, p)
        e == FirstDelimFrom(buf, s)
    IN  IF s > Len(buf) \/ buf[s] = NUL
        THEN [tok |-> NULL, buf |-> buf, save |-> s]
        ELSE IF e <= Len(buf) /\ buf[e] = SP
        THEN [tok |-> Ptr(SubSeq(buf, s, e - 1)),
              buf |-> [buf EXCEPT ![e] = NUL],
              save |-> e + 1]
        ELSE [tok |-> Ptr(SubSeq(buf, s, e - 1)), buf |-> buf, save |-> e]

\* byte i of the C string a, the terminating NUL past its end
ByteAt(a, i) == IF i <= Len(a) THEN a[i] ELSE NUL

\* strncmp(a, b, n) from byte i on: the difference of the first bytes that
\* differ within the first n, 0 when there is none
RECURSIVE StrncmpFrom(_, _, _, _)
StrncmpFrom(a, b, n, i) ==
    IF i > n THEN 0
    ELSE IF ByteAt(a, i) # ByteAt(b, i) THEN ByteAt(a, i) - ByteAt(b, i)
    ELSE IF ByteAt(a, i) = NUL THEN 0
    ELSE StrncmpFrom(a, b, n, i + 1)

Strncmp(a, b, n) == StrncmpFrom(a, b, n, 1)

\* strcmp(a, b)
Strcmp(a, b) == StrncmpFrom(a, b, Len(a) + Len(b) + 1, 1)


\* a & b on unsigned bytes
RECURSIVE BitAnd(_, _)
BitAnd(a, b) ==
    IF a = 0 \/ b = 0 THEN 0
    ELSE (a % 2) * (b % 2) + 2 * BitAnd(a \div 2, b \div 2)

\* printf("%02hhx", b)
HexDigits ==
    <<"0", "1", "2", "3", "4", "5", "6", "7",
      "8", "9", "a", "b", "c", "d", "e", "f">>

Hex2(b) == HexDigits[((b % 256) \div 16) + 1] \o HexDigits[(b % 16) + 1]

\* index of the first '\n' of s, 0 when there is none
RECURSIVE IndexOfLF(_, _)
IndexOfLF(s, p) ==
    IF p > Len(s) THEN 0
    ELSE IF s[p] = LF THEN p
    ELSE IndexOfLF(s, p + 1)

\* mutant: a read that gives up instead of blocking
GetlineTimesOut(old, inb, closed, err) ==
    LET i == IndexOfLF(inb, 1)
    IN  IF err
        THEN [blocked |-> FALSE, rd |-> -1, line |-> old, rest |-> inb]
        ELSE IF i > 0
        THEN [blocked |-> FALSE, rd |-> i, line |-> SubSeq(inb, 1, i),
              rest |-> SubSeq(inb, i + 1, Len(inb))]
        ELSE IF Len(inb) > 0
        THEN [blocked |-> FALSE, rd |-> Len(inb), line |-> inb, rest |-> <<>>]
        ELSE [blocked |-> FALSE, rd |-> -1, line |-> old, rest |-> <<>>]

\* getline(&line, &sz, f) on a stream holding the unread bytes `inb`, at end
\* of stream or in error when `closed`: the return value, the new buffer
\* (through the delimiter) and the bytes left unread; blocked while no
\* delimiter has arrived and the stream is still open. With the stream's
\* error indicator set (`err`) the call returns -1 at once, whatever has
\* arrived
Getline(old, inb, closed, err) ==
    LET i == IndexOfLF(inb, 1)
    IN  IF err
        THEN [blocked |-> FALSE, rd |-> -1, line |-> old, rest |-> inb]
        ELSE IF i > 0
        THEN [blocked |-> FALSE, rd |-> i, line |-> SubSeq(inb, 1, i),
              rest |-> SubSeq(inb, i + 1, Len(inb))]
        ELSE IF closed /\ Len(inb) > 0
        THEN [blocked |-> FALSE, rd |-> Len(inb), line |-> inb, rest |-> <<>>]
        ELSE IF closed
        THEN [blocked |-> FALSE, rd |-> -1, line |-> old, rest |-> <<>>]
        ELSE [blocked |-> TRUE, rd |-> 0, line |-> old, rest |-> inb]

\* recv(): while (rd && line[rd-1] == '\n') line[--rd] = '\0';
RECURSIVE TrimLine(_)
TrimLine(l) ==
    IF Len(l) > 0 /\ l[Len(l)] = LF
    THEN TrimLine(SubSeq(l, 1, Len(l) - 1))
    ELSE l


(***************************************************************************)
(* main(): the steps that send a command, in program order, with the       *)
(* format string and the settle delay each passes to send().               *)
(***************************************************************************)
\* mutant: the restore command issued before the save command
StepsRestoreBeforeSave ==
    <<"idn", "iset", "uset", "out", "ocp", "rest", "save",
      "status", "vsetq", "isetq", "voutq", "ioutq">>

\* mutant: the voltage limit issued before the current limit
StepsVoltageFirst ==
    <<"idn", "uset", "iset", "out", "ocp", "save", "rest",
      "status", "vsetq", "isetq", "voutq", "ioutq">>

\* mutant: the current set-point queried before the voltage set-point
StepsCurrentQueryFirst ==
    <<"idn", "iset", "uset", "out", "ocp", "save", "rest",
      "status", "isetq", "vsetq", "voutq", "ioutq">>

Steps ==
    <<"idn", "iset", "uset", "out", "ocp", "save", "rest",
      "status", "vsetq", "isetq", "voutq", "ioutq">>

ConfigSteps == {"iset", "uset", "out", "ocp", "save", "rest"}
QuerySteps == {"idn", "status", "vsetq", "isetq", "voutq", "ioutq"}
ReadingSteps == {"vsetq", "isetq", "voutq", "ioutq"}

\* the format string of a step's command, without its %s conversion
FmtOf(step) ==
    CASE step = "idn" -> "*IDN?"
      [] step = "iset" -> "ISET1:"
      [] step = "uset" -> "VSET1:"
      [] step = "out" -> "OUT"
      [] step = "ocp" -> "OCP"
      [] step = "save" -> "SAV"
      [] step = "rest" -> "RCL"
      [] step = "status" -> "STATUS?"
      [] step = "vsetq" -> "VSET1?"
      [] step = "isetq" -> "ISET1?"
      [] step = "voutq" -> "VOUT1?"
      [] step = "ioutq" -> "IOUT1?"

\* mutant: OCP sent through the zero-delay path
WaitOfOcpUnsettled(step) ==
    IF step \in {"iset", "uset", "out", "save", "rest"}
    THEN CONFIG_WAIT_NS ELSE QUERY_WAIT_NS

\* wait_ns of a step's send(): 50e6 in main, 0 through comm()
WaitOf(step) ==
    IF step \in ConfigSteps THEN CONFIG_WAIT_NS ELSE QUERY_WAIT_NS

\* mutant: the voltage limit sent through comm()
ReadsResponseAlsoVoltage(step) == step \in QuerySteps \cup {"uset"}

\* mutant: the restore command sent through comm()
ReadsResponseAlsoRestore(step) == step \in QuerySteps \cup {"rest"}

\* comm() reads a response after the send; a bare send() does not
ReadsResponse(step) == step \in QuerySteps

\* the option that guards a step: if (iset) ..., if (print_status) { ... }
Requested(step, o) ==
    CASE step = "idn" -> TRUE
      [] step = "iset" -> o.iset # NULL
      [] step = "uset" -> o.uset # NULL
      [] step = "out" -> o.out # NULL
      [] step = "ocp" -> o.ocp # NULL
      [] step = "save" -> o.save # NULL
      [] step = "rest" -> o.rest # NULL
      [] OTHER -> o.print_status

\* the string a step's %s conversion prints
ArgOf(step, o) ==
    CASE step = "iset" -> Deref(o.iset)
      [] step = "uset" -> Deref(o.uset)
      [] step = "out" -> Deref(o.out)
      [] step = "ocp" -> Deref(o.ocp)
      [] step = "save" -> Deref(o.save)
      [] step = "rest" -> Deref(o.rest)
      [] OTHER -> ""

\* vfprintf(f, fmt, ap)
Vfprintf(fmt, arg) == fmt \o arg

StepIndex(step) == CHOOSE i \in 1..Len(Steps) : Steps[i] = step

\* the first step after position i whose guard holds, "return" past the last
RECURSIVE StepAfter(_, _)
StepAfter(i, o) ==
    IF i >= Len(Steps) THEN "return"
    ELSE IF Requested(Steps[i + 1], o) THEN Steps[i + 1]
    ELSE StepAfter(i + 1, o)

NextStep(step, o) == StepAfter(StepIndex(step), o)


(***************************************************************************)
(* main(), lines 139-147: tokenization and the identity check.             *)
(***************************************************************************)
\* n further strtok calls, each resumed where the call before it (state t:
\* its buffer and save pointer) stopped; the tokens are appended to toks
RECURSIVE StrtokLoop(_, _, _)
StrtokLoop(toks, t, n) ==
    IF n = 0 THEN [toks |-> toks, buf |-> t.buf]
    ELSE CHOOSE r \in { StrtokLoop(Append(toks, u.tok), u, n - 1) :
                            u \in {Strtok(t.buf, t.save)} } : TRUE

\* toks[0..3] = strtok(line, " "), strtok(NULL, " ") x 3, and the buffer the
\* four calls leave behind
Tokenize(l) == StrtokLoop(<<>>, [buf |-> l, save |-> 1], 4)

\* mutant: the firmware version is not compared
IdentCheckNoVersion(toks) ==
    IF toks[1] = NULL THEN "ub"
    ELSE IF Strcmp(Deref(toks[1]), Lit_KORAD) # 0 THEN "mismatch"
    ELSE IF toks[2] = NULL THEN "ub"
    ELSE IF Strcmp(Deref(toks[2]), Lit_KD3005P) # 0 THEN "mismatch"
    ELSE IF toks[4] = NULL THEN "ub"
    ELSE IF Strncmp(Deref(toks[4]), Lit_SN, 3) # 0 THEN "mismatch"
    ELSE "match"

\* strcmp(toks[0], "KORAD") || strcmp(toks[1], "KD3005P") ||
\* strcmp(toks[2], "V6.6") || strncmp(toks[3], "SN:", 3), left to right with
\* short circuit: "mismatch" when the disjunction is true, "match" when it is
\* false, "ub" when it passes a null pointer to strcmp or strncmp first
IdentCheck(toks) ==
    IF toks[1] = NULL THEN "ub"
    ELSE IF Strcmp(Deref(toks[1]), Lit_KORAD) # 0 THEN "mismatch"
    ELSE IF toks[2] = NULL THEN "ub"
    ELSE IF Strcmp(Deref(toks[2]), Lit_KD3005P) # 0 THEN "mismatch"
    ELSE IF toks[3] = NULL THEN "ub"
    ELSE IF Strcmp(Deref(toks[3]), Lit_V6_6) # 0 THEN "mismatch"
    ELSE IF toks[4] = NULL THEN "ub"
    ELSE IF Strncmp(Deref(toks[4]), Lit_SN, 3) # 0 THEN "mismatch"
    ELSE "match"

\* mutant: the identity check left out
IdentOutcomesUnchecked(force, toks) == {"match"}

\* what the condition of line 144 can do: !force short-circuits the check;
\* a null pointer passed to strcmp or strncmp is undefined behaviour: the
\* read through it faults (SIGSEGV), or, where page 0 is readable, it reads
\* bytes that are not the expected literal and the comparison is non-zero.
\* No build makes a comparison through a null pointer come out equal.
IdentOutcomes(force, toks) ==
    IF force THEN {"match"}
    ELSE IF IdentCheck(toks) = "ub" THEN {"segv", "mismatch"}
    ELSE {IdentCheck(toks)}

\* mutant: the error message built from the buffer strtok has split
ReportedIdAfterSplit(received, split) == CStr(split)

\* char *id = strdup(comm("*IDN?")): the copy is taken from the buffer as
\* recv() returned it, before strtok writes into the buffer
ReportedId(received, split) == CStr(received)

(***************************************************************************)
(* main(), lines 176-186: the status byte and its decoding.                *)
(***************************************************************************)
\* unsigned char status = *comm("STATUS?"): the first byte of the buffer,
\* the terminating NUL when the trimmed response is empty
StatusByte(l) == IF Len(l) = 0 THEN NUL ELSE l[1]

\* mutant: OCP read from bit 4
OcpEnabledBit4(status) == BitAnd(status, 16)

CvMode(status) == BitAnd(status, 1)
OcpEnabled(status) == BitAnd(status, 32)
OutEnabled(status) == BitAnd(status, 64)

\* the on/off strings, coloured when stdout is a terminal
OnText(tty) == IF tty THEN "\\x1b[92m" \o "on" \o "\\x1b[0m" ELSE "on"
OffText(tty) == IF tty THEN "\\x1b[91m" \o "off" \o "\\x1b[0m" ELSE "off"

\* the fields of the first printf of the status report
StatusReport(status, tty) ==
    [k |-> "status",
     mode |-> IF CvMode(status) # 0 THEN "voltage" ELSE "current",
     ocp |-> IF OcpEnabled(status) # 0 THEN OnText(tty) ELSE OffText(tty),
     out |-> IF OutEnabled(status) # 0 THEN OnText(tty) ELSE OffText(tty),
     raw |-> Hex2(status)]


(***************************************************************************)
(* State.                                                                  *)
(***************************************************************************)
VARIABLES
    argv,       \* the command line: how getopt ends and the options it sets
    script,     \* the device: its answer to each query
    tty,        \* isatty(STDOUT_FILENO)
    intrLeft,   \* signals that may still interrupt a nanosleep
    wfailLeft,  \* writes that may still fail
    pc,         \* the statement of main() in progress
    ph,         \* within a step: "send", "sleep", "recv", "ret"
    opt,        \* iset, uset, out, ocp, save, rest, print_status,
                \* print_version, force
    rem,        \* struct timespec rem of send(), in ns
    elapsed,    \* time slept so far inside the current send()
    awaiting,   \* the query the device has received and not yet answered
    inbuf,      \* bytes the device has sent and getline has not consumed
    closed,     \* the stream is at end-of-file or in error
    ferr,       \* the error indicator of the stream f, set by a failed write
    line,       \* the shared response buffer, line[0..rd-1]
    rd,         \* the last return value of getline, as trimmed by recv
    log,        \* history: every write, completed sleep and getline call
    outp,       \* what was printed to stdout
    errp,       \* what was printed to stderr
    proc        \* the process: running, exited with a status, or killed

vars ==
    <<argv, script, tty, intrLeft, wfailLeft, pc, ph, opt, rem, elapsed,
      awaiting, inbuf, closed, ferr, line, rd, log, outp, errp, proc>>

env == <<argv, script, tty>>

(***************************************************************************)
(* Inputs: command lines and device behaviours.                            *)
(***************************************************************************)
\* lines 84-86: the options before getopt runs
DefaultOpt ==
    [iset |-> NULL, uset |-> NULL, out |-> NULL, ocp |-> NULL,
     save |-> NULL, rest |-> NULL,
     print_status |-> FALSE, print_version |-> FALSE, force |-> FALSE]

\* the options a command line with the flags of cfg sets
OptOf(cfg, s, v, f) ==
    [iset |-> IF "iset" \in cfg THEN Ptr("1.000") ELSE NULL,
     uset |-> IF "uset" \in cfg THEN Ptr("5.00") ELSE NULL,
     out |-> IF "out" \in cfg THEN Ptr("1") ELSE NULL,
     ocp |-> IF "ocp" \in cfg THEN Ptr("0") ELSE NULL,
     save |-> IF "save" \in cfg THEN Ptr("2") ELSE NULL,
     rest |-> IF "rest" \in cfg THEN Ptr("3") ELSE NULL,
     print_status |-> s, print_version |-> v, force |-> f]

Join4(a, b, c, d) == a \o <<SP>> \o b \o <<SP>> \o c \o <<SP>> \o d

\* "SN:01206303"
SerialTok == Lit_SN \o <<48, 49, 50, 48, 54, 51, 48, 51>>
\* "KORAD KD3005P V6.6 SN:01206303"
IdGood == Join4(Lit_KORAD, Lit_KD3005P, Lit_V6_6, SerialTok)
\* the same with one token changed: KORAX, KD3005X, V6.7, SX:01206303
IdBadVendor == Join4(<<75, 79, 82, 65, 88>>, Lit_KD3005P, Lit_V6_6, SerialTok)
IdBadModel ==
    Join4(Lit_KORAD, <<75, 68, 51, 48, 48, 53, 88>>, Lit_V6_6, SerialTok)
IdBadVersion == Join4(Lit_KORAD, Lit_KD3005P, <<86, 54, 46, 55>>, SerialTok)
IdBadSerial ==
    Join4(Lit_KORAD, Lit_KD3005P, Lit_V6_6,
          <<83, 88, 58, 48, 49, 50, 48, 54, 51, 48, 51>>)
\* a fourth token shorter than the prefix: "SN"
IdShortSerial == Join4(Lit_KORAD, Lit_KD3005P, Lit_V6_6, <<83, 78>>)
\* fewer than four tokens: three that match, one that matches, one that
\* does not ("FOO"), none
IdThree == Lit_KORAD \o <<SP>> \o Lit_KD3005P \o <<SP>> \o Lit_V6_6
IdOne == Lit_KORAD
IdOneBad == <<70, 79, 79>>
IdNone == <<>>

IdFour ==
    {IdGood, IdBadVendor, IdBadModel, IdBadVersion, IdBadSerial,
     IdShortSerial}
IdFewer == {IdThree, IdOne, IdOneBad, IdNone}

\* how the device ends a response: "\r\n", "\n", nothing and then end of
\* stream, nothing with the stream left open, or a read error in place of
\* the response
Terms == {"CRLF", "LF", "EOF", "NONE", "ERR"}

TermBytes(t) ==
    CASE t = "CRLF" -> <<13, 10>>
      [] t = "LF" -> <<10>>
      [] OTHER -> <<>>

\* numeric readings: "05.00", "1.000", "04.99", "0.123"
BaseScript ==
    [idn |-> [c |-> IdGood, t |-> "LF"],
     status |-> [c |-> <<97>>, t |-> "LF"],
     vsetq |-> [c |-> <<48, 53, 46, 48, 48>>, t |-> "LF"],
     isetq |-> [c |-> <<49, 46, 48, 48, 48>>, t |-> "LF"],
     voutq |-> [c |-> <<48, 52, 46, 57, 57>>, t |-> "LF"],
     ioutq |-> [c |-> <<48, 46, 49, 50, 51>>, t |-> "LF"]]

Scenario(o, sc, t, i, w) ==
    [argv |-> [kind |-> "ok", opt |-> o], script |-> sc, tty |-> t,
     intr |-> i, wfail |-> w]

\* every subset of the six configuration requests, with and without -s
ConfigScenarios ==
    {Scenario(OptOf(cfg, s, FALSE, FALSE), BaseScript, FALSE, 0, 0) :
        cfg \in SUBSET ConfigSteps, s \in BOOLEAN}

\* every identification response, with and without -f and -v
IdentScenarios ==
    {Scenario(OptOf({"iset", "uset"}, FALSE, v, f),
              [BaseScript EXCEPT !.idn = [c |-> c, t |-> t]], FALSE, 0, 0) :
        c \in IdFour \cup IdFewer, t \in Terms \ {"ERR"},
        v \in BOOLEAN, f \in BOOLEAN}

\* every status byte
StatusScenarios ==
    {Scenario(OptOf({}, TRUE, FALSE, FALSE),
              [BaseScript EXCEPT !.status = [c |-> <<b>>, t |-> t]],
              y, 0, 0) :
        b \in 0..255, t \in {"CRLF", "LF", "EOF"}, y \in BOOLEAN}

\* every ending of every response
ReadingScenarios ==
    {Scenario(OptOf({"out"}, TRUE, FALSE, FALSE),
              [BaseScript EXCEPT ![q] = [c |-> c, t |-> t]], FALSE, 0, 0) :
        q \in QuerySteps, c \in {<<>>, <<49, 46, 48, 48, 48>>}, t \in Terms}

\* interrupted sleeps and failing writes
FaultScenarios ==
    {Scenario(OptOf(cfg, s, FALSE, FALSE), BaseScript, FALSE,
              MaxIntr, MaxWriteFail) :
        cfg \in {{}, {"iset", "uset"}, ConfigSteps}, s \in BOOLEAN}

\* command lines that getopt rejects, and -h
UsageScenarios ==
    {[argv |-> [kind |-> k, opt |-> DefaultOpt], script |-> BaseScript,
      tty |-> FALSE, intr |-> 0, wfail |-> 0] :
        k \in {"help", "missing", "unknown"}}

Scenarios ==
    ConfigScenarios \cup IdentScenarios \cup StatusScenarios
    \cup ReadingScenarios \cup FaultScenarios \cup UsageScenarios

Init ==
    \E sc \in Scenarios :
        /\ argv = sc.argv
        /\ script = sc.script
        /\ tty = sc.tty
        /\ intrLeft = sc.intr
        /\ wfailLeft = sc.wfail
        /\ pc = "getopt"
        /\ ph = "-"
        /\ opt = DefaultOpt
        /\ rem = 0
        /\ elapsed = 0
        /\ awaiting = NULL
        /\ inbuf = <<>>
        /\ closed = FALSE
        /\ ferr = FALSE
        /\ line = <<>>
        /\ rd = 0
        /\ log = <<>>
        /\ outp = <<>>
        /\ errp = <<>>
        /\ proc = [state |-> "running", code |-> 0]


(***************************************************************************)
(* Actions.                                                                *)
(***************************************************************************)
\* exit(code)
Exit(code) ==
    /\ proc' = [state |-> "exited", code |-> code]
    /\ pc' = "exited"
    /\ ph' = "-"

\* an entry of the history
Event(e, step, text, ns, ok) ==
    [e |-> e, step |-> step, fmt |-> FmtOf(step), text |-> text,
     ns |-> ns, ok |-> ok]

\* lines 88-125: the getopt loop
Getopt ==
    /\ pc = "getopt"
    /\ CASE argv.kind = "ok" ->
                /\ opt' = argv.opt
                /\ pc' = "open"
                /\ UNCHANGED <<ph, proc, outp, errp>>
         [] argv.kind = "help" ->
                /\ outp' = Append(outp, [k |-> "usage"])
                /\ Exit(EXIT_OK)
                /\ UNCHANGED <<opt, errp>>
         [] argv.kind = "missing" ->
                /\ errp' = Append(errp, [k |-> "option requires a parameter"])
                /\ Exit(EXIT_USAGE)
                /\ UNCHANGED <<opt, outp>>
         [] argv.kind = "unknown" ->
                /\ errp' = Append(errp, [k |-> "unknown option"])
                /\ Exit(EXIT_USAGE)
                /\ UNCHANGED <<opt, outp>>
    /\ UNCHANGED <<env, intrLeft, wfailLeft, rem, elapsed, awaiting, inbuf,
                   closed, ferr, line, rd, log>>

\* the exit status of main() when open() fails: perror(dev), exit(1)
OpenFailedStatus == EXIT_USAGE

\* lines 127-133: open() and fdopen()
Open ==
    /\ pc = "open"
    /\ \E r \in {"ok", "open fails", "fdopen fails"} :
        CASE r = "ok" ->
                /\ pc' = "idn"
                /\ ph' = "send"
                /\ UNCHANGED <<proc, errp>>
          [] r = "open fails" ->
                /\ errp' = Append(errp, [k |-> "perror", what |-> "dev"])
                /\ Exit(OpenFailedStatus)
          [] r = "fdopen fails" ->
                /\ errp' = Append(errp, [k |-> "perror", what |-> "fdopen"])
                /\ Exit(EXIT_COMM)
    /\ UNCHANGED <<env, intrLeft, wfailLeft, opt, rem, elapsed, awaiting,
                   inbuf, closed, ferr, line, rd, log, outp>>

\* what a write on f leaves of the bytes getline has not consumed. f is
\* one stream for both directions (fdopen(fd, "a+")) and nothing repositions
\* it between getline and vfprintf: the write drops what getline had read
\* ahead into the stream's buffer. Bytes that the read() behind getline had
\* not fetched yet are still in the descriptor and stay; how many it had
\* fetched depends on how the bytes arrived
UnreadAfterWrite(inb) ==
    {SubSeq(inb, k + 1, Len(inb)) : k \in 0..Len(inb)}

\* lines 49-54: send() up to its first nanosleep: format and write the
\* command and the newline, results unchecked, and load rem with wait_ns;
\* a write that fails leaves the stream's error indicator set
Send ==
    /\ pc \in QuerySteps \cup ConfigSteps
    /\ ph = "send"
    /\ awaiting = NULL     \* the device has answered what it was asked
    /\ \E okw \in BOOLEAN :
        /\ okw \/ wfailLeft > 0
        /\ wfailLeft' = IF okw THEN wfailLeft ELSE wfailLeft - 1
        /\ log' = Append(log, Event("write", pc,
                                    Vfprintf(FmtOf(pc), ArgOf(pc, opt)),
                                    WaitOf(pc), okw))
        /\ awaiting' = IF okw /\ pc \in QuerySteps THEN Ptr(pc) ELSE awaiting
        /\ ferr' = (ferr \/ ~okw)
    /\ inbuf' \in UnreadAfterWrite(inbuf)
    /\ rem' = WaitOf(pc)
    /\ elapsed' = 0
    /\ ph' = "sleep"
    /\ UNCHANGED <<env, intrLeft, pc, opt, closed, line, rd, outp, errp,
                   proc>>

\* the time a nanosleep of r ns may have slept when a signal interrupts it
InterruptedAfter(r) == {0, r \div 2}

\* mutant: the interrupted sleep restarted with the full interval
RemainingRestarted(r, d) == r

\* nanosleep(&rem, &rem) interrupted after d ns: the time left is written
\* back to rem, which the next call of the loop sleeps for
RemainingAfter(r, d) == r - d

\* mutant: a failed read reported with the usage status
ReadFailedStatusUsage == EXIT_USAGE

\* DIE(2, "error reading %s output\n", fmt)
ReadFailedStatus == EXIT_COMM

\* lines 54-57: one call of nanosleep(&rem, &rem) and what follows it
Nanosleep ==
    /\ pc \in QuerySteps \cup ConfigSteps
    /\ ph = "sleep"
    /\ \/ \* returns 0: send() returns
          /\ log' = Append(log, Event("sleep", pc, "", elapsed + rem, TRUE))
          /\ elapsed' = elapsed + rem
          /\ IF ReadsResponse(pc)
             THEN ph' = "recv" /\ pc' = pc
             ELSE ph' = "send" /\ pc' = NextStep(pc, opt)
          /\ UNCHANGED <<rem, intrLeft, errp, proc>>
       \/ \* returns -1 with errno == EINTR: rem holds the remaining time
          /\ rem > 0
          /\ intrLeft > 0
          /\ \E d \in InterruptedAfter(rem) :
                /\ rem' = RemainingAfter(rem, d)
                /\ elapsed' = elapsed + d
          /\ intrLeft' = intrLeft - 1
          /\ UNCHANGED <<pc, ph, log, errp, proc>>
       \/ \* returns -1 with another errno: perror("nanosleep"), exit(2)
          /\ errp' = Append(errp, [k |-> "perror", what |-> "nanosleep"])
          /\ Exit(EXIT_COMM)
          /\ UNCHANGED <<rem, elapsed, intrLeft, log>>
    /\ UNCHANGED <<env, wfailLeft, opt, awaiting, inbuf, closed, ferr, line, rd,
                   outp>>

\* the device answers the query it received; what it sends after the end of
\* the stream is never read (the end-of-file indicator of f stays set)
DeviceRespond ==
    /\ awaiting # NULL
    /\ LET r == script[Deref(awaiting)]
       IN  /\ inbuf' = IF closed \/ r.t = "ERR" THEN inbuf
                       ELSE inbuf \o r.c \o TermBytes(r.t)
           /\ closed' = (closed \/ r.t \in {"EOF", "ERR"})
    /\ awaiting' = NULL
    /\ UNCHANGED <<env, intrLeft, wfailLeft, pc, ph, opt, rem, elapsed, ferr,
                   line, rd, log, outp, errp, proc>>

\* lines 60-68: recv(fmt)
Recv ==
    /\ pc \in QuerySteps \cup ConfigSteps
    /\ ph = "recv"
    /\ \E g \in {Getline(line, inbuf, closed, ferr)} :
           /\ ~g.blocked
           /\ inbuf' = g.rest
           /\ log' = Append(log, Event("read", pc, "", g.rd, g.rd > 0))
           /\ IF g.rd <= 0
              THEN /\ errp' = Append(errp, [k |-> "error reading output",
                                            what |-> FmtOf(pc)])
                   /\ Exit(ReadFailedStatus)
                   /\ rd' = g.rd
                   /\ UNCHANGED line
              ELSE /\ line' = TrimLine(g.line)
                   /\ rd' = Len(TrimLine(g.line))
                   /\ ph' = "ret"
                   /\ UNCHANGED <<pc, errp, proc>>
    /\ UNCHANGED <<env, intrLeft, wfailLeft, opt, rem, elapsed, awaiting,
                   closed, ferr, outp>>

\* stdout when a signal kills the process: a terminal is line buffered and
\* has what was printed; otherwise the lines printed since the last flush
\* are in the buffer of stdout and are lost
UnflushedLost(printed, flushed, terminal) ==
    IF terminal THEN printed ELSE flushed

\* lines 135-148: strdup, the version line, strtok and the identity check
Identify ==
    /\ pc = "idn"
    /\ ph = "ret"
    /\ \E tk \in {Tokenize(line)} :
       LET id == ReportedId(line, tk.buf)
           shown == IF opt.print_version
                    THEN Append(outp, [k |-> "version", id |-> id])
                    ELSE outp
       IN  /\ line' = tk.buf
           /\ \E r \in IdentOutcomes(opt.force, tk.toks) :
                CASE r = "match" ->
                        /\ outp' = shown
                        /\ pc' = NextStep("idn", opt)
                        /\ ph' = "send"
                        /\ UNCHANGED <<errp, proc>>
                  [] r = "mismatch" ->
                        /\ outp' = shown
                        /\ errp' = Append(errp, [k |-> "unknown device",
                                                 id |-> id])
                        /\ Exit(EXIT_USAGE)
                  [] r = "segv" ->
                        /\ outp' = UnflushedLost(shown, outp, tty)
                        /\ proc' = [state |-> "killed", code |-> 11]
                        /\ pc' = "exited"
                        /\ ph' = "-"
                        /\ UNCHANGED errp
    /\ UNCHANGED <<env, intrLeft, wfailLeft, opt, rem, elapsed, awaiting,
                   inbuf, closed, ferr, rd, log>>

\* lines 176-186: decode and print the status byte
ReportStatus ==
    /\ pc = "status"
    /\ ph = "ret"
    /\ outp' = Append(outp, StatusReport(StatusByte(line), tty))
    /\ pc' = NextStep("status", opt)
    /\ ph' = "send"
    /\ UNCHANGED <<env, intrLeft, wfailLeft, opt, rem, elapsed, awaiting,
                   inbuf, closed, ferr, line, rd, log, errp, proc>>

\* lines 187-191: print one reading, the newline after the last
ReportReading ==
    /\ pc \in ReadingSteps
    /\ ph = "ret"
    /\ outp' = Append(outp, [k |-> FmtOf(pc), v |-> CStr(line)])
    /\ pc' = NextStep(pc, opt)
    /\ ph' = "send"
    /\ UNCHANGED <<env, intrLeft, wfailLeft, opt, rem, elapsed, awaiting,
                   inbuf, closed, ferr, line, rd, log, errp, proc>>

\* line 193: main() returns 0
Return ==
    /\ pc = "return"
    /\ Exit(EXIT_OK)
    /\ UNCHANGED <<env, intrLeft, wfailLeft, opt, rem, elapsed, awaiting,
                   inbuf, closed, ferr, line, rd, log, outp, errp>>

Next ==
    \/ Getopt
    \/ Open
    \/ Send
    \/ Nanosleep
    \/ DeviceRespond
    \/ Recv
    \/ Identify
    \/ ReportStatus
    \/ ReportReading
    \/ Return

Spec == Init /\ [][Next]_vars


(***************************************************************************)
(* Properties.  Vocabulary over the history.                               *)
(***************************************************************************)
ConfigFmts == {"ISET1:", "VSET1:", "OUT", "OCP", "SAV", "RCL"}
QueryFmts == {"*IDN?", "STATUS?", "VSET1?", "ISET1?", "VOUT1?", "IOUT1?"}

IsWrite(ev) == ev.e = "write"
IsSleep(ev) == ev.e = "sleep"
IsRead(ev) == ev.e = "read"
IsConfigWrite(ev) == ev.e = "write" /\ ev.fmt \in ConfigFmts

Writes == SelectSeq(log, IsWrite)
Sleeps == SelectSeq(log, IsSleep)
Reads == SelectSeq(log, IsRead)
ConfigWrites == SelectSeq(log, IsConfigWrite)

TextsOf(evs) == [i \in 1..Len(evs) |-> evs[i].text]

IsPrefix(a, b) == Len(a) <= Len(b) /\ a = SubSeq(b, 1, Len(a))

Cardinal(b) == IF b THEN 1 ELSE 0

ExitedWith(code) == proc.state = "exited" /\ proc.code = code

\* the run got past getopt and ended by returning from main()
Completed == pc = "exited" /\ argv.kind = "ok" /\ ExitedWith(0)

\* the commands the options ask for, current limit first, restore last
OneIf(p, fmt) == IF p = NULL THEN <<>> ELSE <<fmt \o p[1]>>

ExpectedConfig(o) ==
    OneIf(o.iset, "ISET1:") \o OneIf(o.uset, "VSET1:") \o OneIf(o.out, "OUT")
    \o OneIf(o.ocp, "OCP") \o OneIf(o.save, "SAV") \o OneIf(o.rest, "RCL")

\* C1: the configuration commands the program writes are at every moment a
\* prefix of the requested ones taken in the order ISET1:, VSET1:, OUT, OCP,
\* SAV, RCL, and in a run that returns from main() they are exactly those,
\* each once; a request that was not made contributes no write, no sleep and
\* no read: the run holds one write and one sleep per requested command or
\* query, and one read per query.
C1_ConfigCommandsInFixedOrder ==
    /\ IsPrefix(TextsOf(ConfigWrites), ExpectedConfig(opt))
    /\ Completed =>
        /\ TextsOf(ConfigWrites) = ExpectedConfig(opt)
        /\ Len(Writes) = 1 + Len(ExpectedConfig(opt))
                           + 5 * Cardinal(opt.print_status)
        /\ Len(Sleeps) = Len(Writes)
        /\ Len(Reads) = 1 + 5 * Cardinal(opt.print_status)
        /\ \A i \in 1..Len(Reads) : Reads[i].fmt \in QueryFmts

C1_Witness ==
    /\ Completed
    /\ opt.iset = NULL /\ opt.out = NULL /\ opt.save = NULL
    /\ TextsOf(ConfigWrites) = <<"VSET1:5.00", "OCP0", "RCL3">>
    /\ Len(Reads) = 1

\* position in the history of the write of a command text, 0 when absent
WrittenAt(text) ==
    IF \E i \in 1..Len(log) : IsWrite(log[i]) /\ log[i].text = text
    THEN CHOOSE i \in 1..Len(log) : IsWrite(log[i]) /\ log[i].text = text
    ELSE 0

\* no write lies strictly between positions i and k of the history
NoWriteBetween(i, k) == \A j \in (i + 1)..(k - 1) : ~IsWrite(log[j])

\* the write at position i is followed by a completed sleep of non-zero
\* length before anything else happens, and no response is read for it
SettledUnread(i) ==
    /\ i + 1 <= Len(log) => IsSleep(log[i + 1]) /\ log[i + 1].ns > 0
    /\ \A k \in (i + 1)..Len(log) :
        IsRead(log[k]) => ~NoWriteBetween(i, k)

BothLimitsRequested == opt.uset = Ptr("5.00") /\ opt.iset = Ptr("1.000")

\* C2 as stated: with both limits requested, VSET1:5.00 is written before
\* ISET1:1.000: once the latter is in the history the former precedes it;
\* each is followed by a non-zero settle wait and by no read.
C2_VoltageBeforeCurrent ==
    BothLimitsRequested =>
        /\ WrittenAt("ISET1:1.000") # 0 =>
            /\ WrittenAt("VSET1:5.00") # 0
            /\ WrittenAt("VSET1:5.00") < WrittenAt("ISET1:1.000")
        /\ \A i \in 1..Len(log) :
            IsWrite(log[i]) /\ log[i].text \in {"VSET1:5.00", "ISET1:1.000"}
                => SettledUnread(i)

\* C2 amended: with both limits requested, ISET1:1.000 is written before
\* VSET1:5.00: once the latter is in the history the former precedes it;
\* each is followed by a non-zero settle wait and by no read.
C2_CurrentBeforeVoltage ==
    BothLimitsRequested =>
        /\ WrittenAt("VSET1:5.00") # 0 =>
            /\ WrittenAt("ISET1:1.000") # 0
            /\ WrittenAt("ISET1:1.000") < WrittenAt("VSET1:5.00")
        /\ \A i \in 1..Len(log) :
            IsWrite(log[i]) /\ log[i].text \in {"VSET1:5.00", "ISET1:1.000"}
                => SettledUnread(i)

C2_Witness ==
    /\ Completed
    /\ BothLimitsRequested
    /\ WrittenAt("ISET1:1.000") # 0
    /\ WrittenAt("VSET1:5.00") # 0

\* C3: every command written is a configuration command sent with the
\* 50 ms settle delay or a query sent with a zero settle delay, and the
\* sleep that completes after it lasted that long.
C3_TimingClasses ==
    \A i \in 1..Len(log) :
        /\ IsWrite(log[i]) =>
            /\ log[i].fmt \in ConfigFmts \cup QueryFmts
            /\ log[i].fmt \in ConfigFmts => log[i].ns = 50000000
            /\ log[i].fmt \in QueryFmts => log[i].ns = 0
        /\ IsSleep(log[i]) =>
            /\ log[i].fmt \in ConfigFmts => log[i].ns = 50000000
            /\ log[i].fmt \in QueryFmts => log[i].ns = 0

C3_Witness ==
    /\ Completed
    /\ ConfigFmts \cup QueryFmts = {log[i].fmt : i \in 1..Len(log)}
    /\ \E i \in 1..Len(log) :
        IsSleep(log[i]) /\ log[i].fmt = "RCL" /\ log[i].ns = 50000000


(***************************************************************************)
(* Identity validation.                                                    *)
(***************************************************************************)
\* the identification response was read and the identity check has run
Identified ==
    /\ pc # "idn"
    /\ \E i \in 1..Len(log) :
        IsRead(log[i]) /\ log[i].fmt = "*IDN?" /\ log[i].ok

\* the check ended the process as an unrecognized device
Rejected ==
    /\ ExitedWith(1)
    /\ \E i \in 1..Len(errp) : errp[i].k = "unknown device"

\* the check let main() go on to the configuration commands
Accepted ==
    /\ Identified
    /\ proc.state # "killed"
    /\ \A i \in 1..Len(errp) : errp[i].k # "unknown device"

\* the content of the device's identification response
IdnContent == script.idn.c

\* C4: a four-token identification response with vendor KORAD, model
\* KD3005P, version V6.6 and a fourth token starting with SN: is accepted;
\* without the override flag a response that fails any single one of the
\* four checks is rejected; with the override flag every four-token
\* response is accepted.
C4_IdentityValidation ==
    Identified /\ IdnContent \in IdFour =>
        /\ IdnContent = IdGood => Accepted
        /\ ~opt.force /\ IdnContent # IdGood => Rejected
        /\ opt.force => Accepted

C4_Witness ==
    /\ Identified
    /\ IdnContent = IdBadVersion
    /\ ~opt.force
    /\ Rejected

\* C5: without the override flag, an identification response of fewer than
\* four tokens ends the process as an unrecognized device with the usage
\* exit status.
C5_FewerTokensRejected ==
    Identified /\ ~opt.force /\ IdnContent \in IdFewer => Rejected

(***************************************************************************)
(* Response reading.                                                       *)
(***************************************************************************)
\* recv() has just returned the response to the query of step pc
Returned == ph = "ret"

\* what recv() returns for a stream that holds exactly the bytes s
RecvOf(s) == TrimLine(Getline(<<>>, s, TRUE, FALSE).line)

\* C6: the value recv() returns for a response of content c is the same
\* whether the device ended it with \r\n, with \n or not at all: it is the
\* value returned for c followed by \n, and the value returned for c alone.
C6_TerminatorIndependent ==
    Returned =>
        /\ line = RecvOf(script[pc].c \o <<10>>)
        /\ line = RecvOf(script[pc].c)

(***************************************************************************)
(* Status decoding.                                                        *)
(***************************************************************************)
\* the device answers STATUS? with at least one byte; the first is the
\* status byte
StatusSent == Len(script.status.c) >= 1
SentStatus == script.status.c[1]

\* bit k of a byte
BitOf(b, k) == (b \div (2 ^ k)) % 2 = 1

IsOn(text) == text \in {"on", "\\x1b[92m" \o "on" \o "\\x1b[0m"}
IsOff(text) == text \in {"off", "\\x1b[91m" \o "off" \o "\\x1b[0m"}

\* the value a two-digit hexadecimal text denotes
HexValue(text) == CHOOSE v \in 0..255 : Hex2(v) = text

StatusShown == {i \in 1..Len(outp) : outp[i].k = "status"}

\* C7: for every status byte 0..255 the report shows constant voltage iff
\* bit 0 is set, OCP on iff bit 5 is set and output on iff bit 6 is set.
C7_StatusDecoding ==
    \A i \in StatusShown :
        StatusSent =>
        /\ (outp[i].mode = "voltage") <=> BitOf(SentStatus, 0)
        /\ (outp[i].mode = "current") <=> ~BitOf(SentStatus, 0)
        /\ IsOn(outp[i].ocp) <=> BitOf(SentStatus, 5)
        /\ IsOff(outp[i].ocp) <=> ~BitOf(SentStatus, 5)
        /\ IsOn(outp[i].out) <=> BitOf(SentStatus, 6)
        /\ IsOff(outp[i].out) <=> ~BitOf(SentStatus, 6)

C7_Witness ==
    /\ StatusSent
    /\ SentStatus = 65
    /\ \E i \in StatusShown :
        outp[i].mode = "voltage" /\ IsOff(outp[i].ocp) /\ IsOn(outp[i].out)

\* C8: for every status byte 0..255 the raw byte shown in the report is the
\* byte the device sent.
C8_RawByteRoundTrip ==
    \A i \in StatusShown : StatusSent => HexValue(outp[i].raw) = SentStatus

(***************************************************************************)
(* Exit statuses.                                                          *)
(***************************************************************************)
OpenFailed ==
    \E i \in 1..Len(errp) : errp[i].k = "perror" /\ errp[i].what = "dev"

ReadFailed == \E i \in 1..Len(errp) : errp[i].k = "error reading output"

UsageError ==
    \E i \in 1..Len(errp) :
        errp[i].k \in {"option requires a parameter", "unknown option",
                       "unknown device"}

\* C9: a failure to open the device path ends the process with the status
\* of communication failures, 2, which is the status of read failures and
\* is not the status of usage errors and identity mismatch.
C9_OpenFailureIsCommFailure ==
    /\ OpenFailed => ExitedWith(2)
    /\ ReadFailed => ExitedWith(2)
    /\ UsageError => proc.state = "exited" /\ proc.code # 2

\* C10: a failed write is fatal: it is the last thing the program does with
\* the device (no later write, sleep or read), and the process ends with
\* status 2.
C10_WriteFailureFatal ==
    \A i \in 1..Len(log) :
        IsWrite(log[i]) /\ ~log[i].ok =>
            /\ i = Len(log)
            /\ pc = "exited" => ExitedWith(2)


(***************************************************************************)
(* Read failures.                                                          *)
(***************************************************************************)
LastErr == errp[Len(errp)]

\* C11: a read of a query's response that fails or hits end-of-stream is
\* the last thing in the history: the process has ended with status 2,
\* which is not the usage status 1, the error names the query whose
\* response was being read, and no command is written afterwards.
C11_ReadFailureFatal ==
    \A i \in 1..Len(log) :
        IsRead(log[i]) /\ ~log[i].ok =>
            /\ i = Len(log)
            /\ log[i].fmt \in QueryFmts
            /\ pc = "exited"
            /\ ExitedWith(2)
            /\ ~ExitedWith(1)
            /\ Len(errp) > 0
            /\ LastErr.k = "error reading output"
            /\ LastErr.what = log[i].fmt

\* the read of VOUT1? fails after OUT1 was sent and three responses read
C11_Witness ==
    /\ Len(log) > 0
    /\ IsRead(log[Len(log)]) /\ ~log[Len(log)].ok
    /\ log[Len(log)].fmt = "VOUT1?"
    /\ WrittenAt("OUT1") # 0
    /\ ExitedWith(2)

(***************************************************************************)
(* Session order.                                                          *)
(***************************************************************************)
IdnWrites == {i \in 1..Len(log) : IsWrite(log[i]) /\ log[i].fmt = "*IDN?"}

\* the identification response was read before position i of the history
IdnReadBefore(i) ==
    \E j \in 1..(i - 1) : IsRead(log[j]) /\ log[j].fmt = "*IDN?" /\ log[j].ok

\* C12: the first command written is *IDN? and it is written once; any
\* other command is written only after the identification response was
\* read, and only if that response is the valid identity or the override
\* flag is set; a run that rejects the device has written *IDN? alone.
C12_IdentifyFirst ==
    /\ Len(log) > 0 => IsWrite(log[1]) /\ log[1].text = "*IDN?"
    /\ Cardinality(IdnWrites) <= 1
    /\ pc \notin {"getopt", "open"} /\ Len(log) > 0 => Cardinality(IdnWrites) = 1
    /\ \A i \in 1..Len(log) :
        IsWrite(log[i]) /\ log[i].fmt # "*IDN?" =>
            /\ IdnReadBefore(i)
            /\ opt.force \/ IdnContent = IdGood
    /\ Rejected => TextsOf(Writes) = <<"*IDN?">>

C12_Witness ==
    /\ Rejected
    /\ BothLimitsRequested
    /\ IdnContent = IdBadModel
    /\ TextsOf(Writes) = <<"*IDN?">>

StatusFmts == <<"STATUS?", "VSET1?", "ISET1?", "VOUT1?", "IOUT1?">>

IsStatusWrite(ev) ==
    ev.e = "write" /\ \E k \in 1..Len(StatusFmts) : ev.fmt = StatusFmts[k]

StatusWrites == SelectSeq(log, IsStatusWrite)

\* every requested configuration command is in the history before
\* position i, each directly followed by its completed 50 ms sleep
ConfigSettledBefore(i) ==
    LET before == SubSeq(log, 1, i - 1)
    IN  /\ TextsOf(SelectSeq(before, IsConfigWrite)) = ExpectedConfig(opt)
        /\ \A j \in 1..(i - 1) :
            IsConfigWrite(log[j]) =>
                /\ j + 1 <= i - 1
                /\ IsSleep(log[j + 1])
                /\ log[j + 1].fmt = log[j].fmt
                /\ log[j + 1].ns = 50000000

\* the response to the query fmt was read just before position i
ReadJustBefore(i, fmt) ==
    i > 1 /\ IsRead(log[i - 1]) /\ log[i - 1].fmt = fmt /\ log[i - 1].ok

\* C13: the status queries are written in the order STATUS?, VSET1?,
\* ISET1?, VOUT1?, IOUT1?, each once and all five in a run that returns
\* from main() with status reporting requested; each after the first
\* directly after the read of the previous one's response; all after every
\* requested configuration command and its settle delay; none when status
\* reporting is not requested.
C13_StatusQueriesInOrder ==
    /\ IsPrefix(TextsOf(StatusWrites), StatusFmts)
    /\ ~opt.print_status => Len(StatusWrites) = 0
    /\ Completed /\ opt.print_status => TextsOf(StatusWrites) = StatusFmts
    /\ \A i \in 1..Len(log) :
        IsStatusWrite(log[i]) =>
            /\ ConfigSettledBefore(i)
            /\ \A k \in 2..Len(StatusFmts) :
                log[i].fmt = StatusFmts[k] =>
                    ReadJustBefore(i, StatusFmts[k - 1])

C13_Witness ==
    /\ Completed
    /\ opt.print_status
    /\ TextsOf(StatusWrites) = StatusFmts
    /\ TextsOf(ConfigWrites) = <<"ISET1:1.000", "OUT1", "SAV2">>


(***************************************************************************)
(* The settle delay.                                                       *)
(***************************************************************************)
SleepFailed ==
    \E i \in 1..Len(errp) : errp[i].k = "perror" /\ errp[i].what = "nanosleep"

\* C14: while send() sleeps, however often it was interrupted, the process
\* is running and the time slept so far plus the time the next nanosleep
\* is asked for is the interval requested with the command; every sleep
\* that completes follows its write and lasted exactly that interval; a
\* sleep failure other than EINTR ends the process with status 2.
C14_SleepResumes ==
    /\ ph = "sleep" =>
        /\ proc.state = "running"
        /\ IsWrite(log[Len(log)])
        /\ elapsed + rem = log[Len(log)].ns
        /\ rem >= 0
    /\ \A i \in 1..Len(log) :
        IsSleep(log[i]) =>
            /\ i > 1
            /\ IsWrite(log[i - 1])
            /\ log[i].ns = log[i - 1].ns
    /\ SleepFailed => ExitedWith(2)

\* all six settle delays completed in a run whose sleeps were interrupted
\* as often as the bound allows
C14_Witness ==
    /\ Completed
    /\ wfailLeft > 0
    /\ intrLeft = 0
    /\ Len(ExpectedConfig(opt)) = 6
    /\ \E i \in 1..Len(log) :
        IsSleep(log[i]) /\ log[i].fmt = "SAV" /\ log[i].ns = 50000000

(***************************************************************************)
(* The identity string of the error report.                                *)
(***************************************************************************)
\* what recv() returned for the identification response
IdnReceived == RecvOf(IdnContent \o TermBytes(script.idn.t))

UnknownDeviceReports ==
    {i \in 1..Len(errp) : errp[i].k = "unknown device"}

\* C15: when the identity check fails without the override flag, the
\* process ends with status 1 and the identity string in the error is the
\* whole identification response as recv() returned it, every token and
\* separator, not the buffer that strtok has cut at the first separator.
C15_FullIdentityReported ==
    \A i \in UnknownDeviceReports :
        /\ ~opt.force
        /\ ExitedWith(1)
        /\ errp[i].id = IdnReceived
        /\ Len(errp[i].id) >= Len(IdnContent)
        /\ SubSeq(errp[i].id, 1, Len(IdnContent)) = IdnContent

C15_Witness ==
    /\ UnknownDeviceReports # {}
    /\ IdnContent = IdBadVersion
    /\ CStr(line) = Lit_KORAD
    /\ errp[1].id = IdBadVersion


(***************************************************************************)
(* The status report.                                                      *)
(***************************************************************************)
StepOfFmt(fmt) == CHOOSE st \in QuerySteps : FmtOf(st) = fmt

ReadingsShown ==
    {i \in 1..Len(outp) :
        outp[i].k \in {"VSET1?", "ISET1?", "VOUT1?", "IOUT1?"}}

\* the content the device sent in answer to the query fmt
ContentFor(fmt) == script[StepOfFmt(fmt)].c

\* a presented value is the content sent, a carriage return the line ending
\* left behind aside
IsContent(v, c) == v = c \/ v = c \o <<13>>

\* C16: every value of the status report is what the device sent in answer
\* to that same query: the status byte shown is the byte sent for STATUS?,
\* and each reading shown is the content sent for its own query, not the
\* response to another query.
C16_NoStaleValues ==
    /\ \A i \in StatusShown :
        StatusSent => HexValue(outp[i].raw) = SentStatus
    /\ \A i \in ReadingsShown :
        IsContent(outp[i].v, ContentFor(outp[i].k))


(***************************************************************************)
(* Pairing of reads with queries.                                          *)
(***************************************************************************)
IsQueryWrite(ev) == ev.e = "write" /\ ev.fmt \in QueryFmts

QueryWrites == SelectSeq(log, IsQueryWrite)

\* C17: there are never more reads than query writes and never more than
\* one query write without its read; each read comes directly after the
\* write of a query and that write's zero-length sleep, with no other write
\* in between; no read follows a configuration command before the next
\* write.
C17_ReadsPairedWithQueries ==
    /\ Len(Reads) <= Len(QueryWrites)
    /\ Len(QueryWrites) <= Len(Reads) + 1
    /\ \A k \in 1..Len(log) :
        IsRead(log[k]) =>
            /\ k >= 3
            /\ log[k].fmt \in QueryFmts
            /\ IsSleep(log[k - 1]) /\ log[k - 1].fmt = log[k].fmt
            /\ IsWrite(log[k - 2]) /\ log[k - 2].fmt = log[k].fmt
    /\ \A i \in 1..Len(log) :
        IsConfigWrite(log[i]) =>
            \A k \in (i + 1)..Len(log) :
                IsRead(log[k]) => ~NoWriteBetween(i, k)

C17_Witness ==
    /\ Completed
    /\ Len(Reads) = 6
    /\ Len(QueryWrites) = 6
    /\ Len(ConfigWrites) = 6

(***************************************************************************)
(* A device that does not answer.                                          *)
(***************************************************************************)
\* recv() is waiting in getline: no line delimiter has arrived, the stream
\* is open and the device will send nothing more for this query
Unanswered ==
    /\ ph = "recv"
    /\ awaiting = NULL
    /\ ~closed
    /\ ~ferr
    /\ IndexOfLF(inbuf, 1) = 0

\* C18: while a query is unanswered the process is running, and no step
\* ends the wait: it stays in that read, writes nothing and does not
\* terminate.
C18_BlockedForever ==
    /\ [](Unanswered => proc.state = "running")
    /\ [][Unanswered => Unanswered' /\ UNCHANGED <<log, proc, pc>>]_vars

\* waiting for the response to VSET1? after OUT1 was sent
C18_Witness ==
    /\ Unanswered
    /\ pc = "vsetq"
    /\ WrittenAt("OUT1") # 0
    /\ proc.state = "running"

(***************************************************************************)
(* Termination.                                                            *)
(***************************************************************************)
\* the process keeps executing and the device keeps answering: a step that
\* stays possible is eventually taken
FairSpec == Spec /\ WF_vars(Next)

\* the command line is accepted, the device ends every response with a
\* newline, and the identity validates or the override flag is set
Cooperative ==
    /\ argv.kind = "ok"
    /\ \A q \in QuerySteps : script[q].t \in {"LF", "CRLF"}
    /\ argv.opt.force \/ IdnContent = IdGood

\* something outside the claim's premises went wrong: the device could not
\* be opened, a write failed (the device never got the command, and the
\* next read on the stream fails), or a sleep failed other than by
\* interruption
Faulted ==
    \/ \E i \in 1..Len(errp) : errp[i].k = "perror"
    \/ \E i \in 1..Len(log) : IsWrite(log[i]) /\ ~log[i].ok

\* the run returned from main() having written one *IDN?, one command per
\* requested configuration action and the five status queries iff requested
CompletedAsRequested ==
    /\ Completed
    /\ TextsOf(Writes) =
        <<"*IDN?">> \o ExpectedConfig(opt)
        \o (IF opt.print_status THEN StatusFmts ELSE <<>>)

\* C19: with a cooperative device and sleeps interrupted finitely often,
\* every run that meets no fault eventually returns from main() with
\* status 0, having written exactly the requested commands.
C19_Terminates == Cooperative ~> (Faulted \/ CompletedAsRequested)

C19_Witness ==
    /\ CompletedAsRequested
    /\ Cooperative
    /\ ~Faulted
    /\ opt.print_status
    /\ Len(ExpectedConfig(opt)) = 6
    /\ wfailLeft > 0
    /\ intrLeft = 0

====
